---- MODULE Spec2Model ----
(***************************************************************************)
(* The SMART error check engine of cmk-oposs_smart_error: the section      *)
(* parser, the service discovery and the check function of the two plugin  *)
(* variants found in the repository,                                       *)
(*   "oposs" = cmk_addons/plugins/oposs_smart_error/agent_based/...        *)
(*   "smart" = cmk_addons/plugins/smart_errors/agent_based/...             *)
(*                                                                         *)
(* Text is a sequence of strings whose concatenation is the Python string. *)
(* Device names, serials and service items are kept character by character *)
(* (every element one character), because the code splits and strips them. *)
(* A JSON value is a record tagged by t: "absent" (key not in the object), *)
(* "num", "str", "list", and three shapes of JSON object: "obj" (a device  *)
(* blob), "map" (error_counters, its entries in insertion order) and "ctr" *)
(* (the counters of one operation).  A Python call that raises is an       *)
(* outcome whose field raised names the exception.                         *)
(***************************************************************************)
EXTENDS Integers, Sequences, FiniteSets, TLC

VARIABLES
    variant,        \* the plugin installed: "oposs" or "smart"
    string_table,   \* the rows of the agent section of this cycle
    section,        \* the parsed section of this cycle
    services,       \* what discovery yielded in this cycle
    item,           \* the service item the host monitors (<<>>: none yet)
    params,         \* the check parameters of the rule in force
    outcome,        \* what the last check of item gave
    phase           \* where the host is in the cycle

vars == <<variant, string_table, section, services, item, params, outcome, phase>>

(* ------------------------------ bounds --------------------------------- *)
MaxRows == 2
MaxCount == 2
MaxLevel == 2

(* ------------------------------ strings -------------------------------- *)
IsPrefixAt(s, sub, i) ==
    /\ i + Len(sub) - 1 <= Len(s)
    /\ \A j \in 1..Len(sub) : s[i + j - 1] = sub[j]

\* Python: sub in s
Contains(s, sub) == \E i \in 1..(Len(s) + 1) : IsPrefixAt(s, sub, i)

\* Python: s.endswith(sub)
EndsWith(s, sub) ==
    /\ Len(sub) <= Len(s)
    /\ IsPrefixAt(s, sub, Len(s) - Len(sub) + 1)

\* Python: s.split(sub)[0], the text before the first occurrence of sub
SplitFirst(s, sub) ==
    IF Contains(s, sub)
    THEN LET i == CHOOSE k \in 1..(Len(s) + 1) :
                    /\ IsPrefixAt(s, sub, k)
                    /\ \A m \in 1..(k - 1) : ~IsPrefixAt(s, sub, m)
         IN SubSeq(s, 1, i - 1)
    ELSE s

\* Python: s.split(sub)[-1], the text after the last occurrence of sub
SplitLast(s, sub) ==
    IF Contains(s, sub)
    THEN LET i == CHOOSE k \in 1..(Len(s) + 1) :
                    /\ IsPrefixAt(s, sub, k)
                    /\ \A m \in (k + 1)..(Len(s) + 1) : ~IsPrefixAt(s, sub, m)
         IN SubSeq(s, i + Len(sub), Len(s))
    ELSE s

IsSpace(c) == c \in {" ", "\t", "\n"}

\* Python: s.strip()
Strip(s) ==
    IF \A i \in 1..Len(s) : IsSpace(s[i])
    THEN <<>>
    ELSE LET a == CHOOSE i \in 1..Len(s) :
                    ~IsSpace(s[i]) /\ \A j \in 1..(i - 1) : IsSpace(s[j])
             b == CHOOSE i \in 1..Len(s) :
                    ~IsSpace(s[i]) /\ \A j \in (i + 1)..Len(s) : IsSpace(s[j])
         IN SubSeq(s, a, b)

\* Mutant: the first 8 characters of the serial.
SerialShort_First8(serial) ==
    IF Len(serial) > 8 THEN SubSeq(serial, 1, 8) ELSE serial

\* Python: serial[-8:] if len(serial) > 8 else serial
SerialShort(serial) ==
    IF Len(serial) > 8 THEN SubSeq(serial, Len(serial) - 7, Len(serial)) ELSE serial

OpenParen == <<" ", "(">>
CloseParen == <<")">>
NoSerial == <<"n", "o", "-", "s", "e", "r", "i", "a", "l">>
ErrorKey == <<"e", "r", "r", "o", "r">>

(* ------------------------------ JSON values ---------------------------- *)
Absent == [t |-> "absent"]
Num(n) == [t |-> "num", n |-> n]
Str(s) == [t |-> "str", s |-> s]
List(l) == [t |-> "list", l |-> l]
Obj(o) == [t |-> "obj", o |-> o]
Map(m) == [t |-> "map", m |-> m]
Ctr(c) == [t |-> "ctr", c |-> c]

\* Python: isinstance(v, dict)
IsDict(v) == v.t \in {"obj", "map", "ctr"}

\* The keys of a device blob that the check engine reads.
Blob(error, device, model, serial, capacity_bytes, error_counters) ==
    Obj([error |-> error, device |-> device, model |-> model, serial |-> serial,
         capacity_bytes |-> capacity_bytes, error_counters |-> error_counters])

\* Python: {"error": msg}
ErrorDict(msg) == Blob(Str(msg), Absent, Absent, Absent, Absent, Absent)

\* Python: d.get(key, default) on a dict d, given the stored value
GetOr(value, default) == IF value.t = "absent" THEN default ELSE value

\* Python truthiness of a JSON value
Truthy(v) ==
    CASE v.t = "absent" -> FALSE
      [] v.t = "num" -> v.n # 0
      [] v.t = "str" -> v.s # <<>>
      [] v.t = "list" -> v.l # <<>>
      [] v.t = "map" -> v.m # <<>>
      [] v.t \in {"obj", "ctr"} -> TRUE

(* ------------------------------ agent rows ----------------------------- *)
\* Field 1 of a row is a text: the literal ERROR, the text of a JSON value v,
\* or a text that is no JSON at all.
ErrorLiteral == [k |-> "ERROR", v |-> Absent]
JsonText(v) == [k |-> "json", v |-> v]
BadText == [k |-> "bad", v |-> Absent]

\* Python: json.loads(text); raises JSONDecodeError on a text that is no JSON
\* (the text ERROR is none either).
JsonLoads(text) ==
    IF text.k = "json" THEN [raised |-> "none", value |-> text.v]
    ELSE [raised |-> "JSONDecodeError", value |-> Absent]

UnknownError == <<"Unknown error">>
InvalidJson == <<"Invalid JSON data">>

(* ------------------------------ the section ---------------------------- *)
\* A Python dict device_name -> data, as the sequence of its items in
\* insertion order.
HasKey(sec, name) == \E i \in 1..Len(sec) : sec[i].name = name

Lookup(sec, name) == sec[CHOOSE i \in 1..Len(sec) : sec[i].name = name].data

\* Mutant: the first record of a device is kept.
Put_KeepFirst(sec, name, data) ==
    IF HasKey(sec, name) THEN sec
    ELSE Append(sec, [name |-> name, data |-> data])

\* Python: section[device_name] = data
Put(sec, name, data) ==
    IF HasKey(sec, name)
    THEN [i \in 1..Len(sec) |->
            IF sec[i].name = name THEN [name |-> name, data |-> data] ELSE sec[i]]
    ELSE Append(sec, [name |-> name, data |-> data])

\* Mutant: ERROR is given to the JSON parser like any other text.
ParseLine_ErrorAsJson(sec, line) ==
    IF Len(line) < 2 THEN sec
    ELSE LET r == JsonLoads(line[2])
         IN IF r.raised = "none"
            THEN Put(sec, line[1], r.value)
            ELSE Put(sec, line[1], ErrorDict(InvalidJson))

\* Mutant: a row that is no JSON is skipped.
ParseLine_SkipBad(sec, line) ==
    IF Len(line) < 2 THEN sec
    ELSE IF line[2] = ErrorLiteral
         THEN Put(sec, line[1],
                  ErrorDict(IF Len(line) > 2 THEN line[3] ELSE UnknownError))
         ELSE LET r == JsonLoads(line[2])
              IN IF r.raised = "none" THEN Put(sec, line[1], r.value) ELSE sec

\* One iteration of the loop of parse_oposs_smart_error / parse_smart_errors.
ParseLine(sec, line) ==
    IF Len(line) < 2 THEN sec
    ELSE IF line[2] = ErrorLiteral
         THEN Put(sec, line[1],
                  ErrorDict(IF Len(line) > 2 THEN line[3] ELSE UnknownError))
         ELSE LET r == JsonLoads(line[2])
              IN IF r.raised = "none"
                 THEN Put(sec, line[1], r.value)
                 ELSE Put(sec, line[1], ErrorDict(InvalidJson))

RECURSIVE ParseFrom(_, _, _)
ParseFrom(sec, table, i) ==
    IF i > Len(table) THEN sec
    ELSE ParseFrom(ParseLine(sec, table[i]), table, i + 1)

\* parse_oposs_smart_error / parse_smart_errors (the two are the same code)
Parse(table) == ParseFrom(<<>>, table, 1)

(* ------------------------------ discovery ------------------------------ *)
\* Mutant: the key "error" counts only in an object without counters.
InError_UnlessCounters(data) ==
    CASE data.t = "obj" ->
            [raised |-> "none",
             yes |-> data.o.error.t # "absent" /\ data.o.error_counters.t = "absent"]
      [] data.t \in {"map", "ctr"} -> [raised |-> "none", yes |-> FALSE]
      [] data.t = "str" -> [raised |-> "none", yes |-> Contains(data.s, ErrorKey)]
      [] data.t = "list" ->
            [raised |-> "none",
             yes |-> \E i \in 1..Len(data.l) :
                        data.l[i].t = "str" /\ data.l[i].s = ErrorKey]
      [] OTHER -> [raised |-> "TypeError", yes |-> FALSE]

\* Python: "error" in data.  A dict is asked for the key, a str for the
\* substring, a list for the element; a number is not iterable.
InError(data) ==
    CASE data.t = "obj" -> [raised |-> "none", yes |-> data.o.error.t # "absent"]
      [] data.t \in {"map", "ctr"} -> [raised |-> "none", yes |-> FALSE]
      [] data.t = "str" -> [raised |-> "none", yes |-> Contains(data.s, ErrorKey)]
      [] data.t = "list" ->
            [raised |-> "none",
             yes |-> \E i \in 1..Len(data.l) :
                        data.l[i].t = "str" /\ data.l[i].s = ErrorKey]
      [] OTHER -> [raised |-> "TypeError", yes |-> FALSE]

\* The service item of one device: f"{device_name} ({serial_short})" or
\* f"{device_name} (no-serial)"
ServiceItem(device_name, serial) ==
    IF serial # <<>>
    THEN device_name \o OpenParen \o SerialShort(serial) \o CloseParen
    ELSE device_name \o OpenParen \o NoSerial \o CloseParen

\* The body of the loop of discover_*: what one (device_name, data) yields.
DiscoverOne(device_name, data) ==
    LET e == InError(data)
    IN IF e.raised # "none" THEN [raised |-> e.raised, items |-> <<>>]
       ELSE IF e.yes THEN [raised |-> "none", items |-> <<>>]
       ELSE IF data.t # "obj"
            \* data.get on a str or a list
            THEN [raised |-> "AttributeError", items |-> <<>>]
       ELSE LET serial == GetOr(data.o.serial, Str(<<>>))
            IN IF ~Truthy(serial)
               THEN [raised |-> "none", items |-> <<ServiceItem(device_name, <<>>)>>]
               ELSE IF serial.t # "str"
                    \* len(serial) of a number
                    THEN [raised |-> "TypeError", items |-> <<>>]
               ELSE [raised |-> "none", items |-> <<ServiceItem(device_name, serial.s)>>]

RECURSIVE DiscoverFrom(_, _, _)
DiscoverFrom(sec, i, acc) ==
    IF i > Len(sec) THEN [raised |-> "none", items |-> acc]
    ELSE LET d == DiscoverOne(sec[i].name, sec[i].data)
         IN IF d.raised # "none" THEN [raised |-> d.raised, items |-> acc]
            ELSE DiscoverFrom(sec, i + 1, acc \o d.items)

\* discover_oposs_smart_error / discover_smart_errors: the services yielded,
\* and the exception that ended the generator, if any.
Discover(sec) == DiscoverFrom(sec, 1, <<>>)

(* ------------------------------ numbers -------------------------------- *)
\* A metric value n/d * 2^e, kept exact: bytes are gigabytes * 2^30 and a
\* per-terabyte rate is counter / (gigabytes / 2^10).
Val(n, d, e) == [n |-> n, d |-> d, e |-> e]
IntVal(n) == Val(n, 1, 0)

Digits == <<"0", "1", "2", "3", "4", "5", "6", "7", "8", "9">>
IsDigit(c) == \E i \in 1..10 : Digits[i] = c
DigitOf(c) == (CHOOSE i \in 1..10 : Digits[i] = c) - 1

RECURSIVE DigitsValue(_, _)
DigitsValue(s, acc) ==
    IF s = <<>> THEN acc ELSE DigitsValue(Tail(s), 10 * acc + DigitOf(Head(s)))

\* Python: float(x) for a JSON number or a text; a text that is not a number
\* raises ValueError, a list or a dict TypeError.  (Texts of the model are
\* digit strings or hold no digit at all.)
Float(x) ==
    CASE x.t = "num" -> [raised |-> "none", f |-> x.n]
      [] x.t = "str" ->
            IF x.s # <<>> /\ \A i \in 1..Len(x.s) : IsDigit(x.s[i])
            THEN [raised |-> "none", f |-> DigitsValue(x.s, 0)]
            ELSE [raised |-> "ValueError", f |-> 0]
      [] OTHER -> [raised |-> "TypeError", f |-> 0]

\* cmk render.bytes: binary (IEC) units.  The argument is a byte count
\* n * 2^e with e = 0 (a capacity) or e = 30 (processed gigabytes).
RenderBytes(v) ==
    IF v.e = 30 THEN <<ToString(v.n), ".00 GiB">>
    ELSE IF v.n < 1024 THEN <<ToString(v.n), " B">>
    ELSE <<ToString(v.n \div 1024), ".",
           ToString((((v.n % 1024) * 100) \div 1024) \div 10),
           ToString((((v.n % 1024) * 100) \div 1024) % 10), " KiB">>

(* ------------------------------ states --------------------------------- *)
\* cmk State: OK = 0, WARN = 1, CRIT = 2, UNKNOWN = 3
StateValue(s) ==
    CASE s = "OK" -> 0 [] s = "WARN" -> 1 [] s = "CRIT" -> 2 [] s = "UNKNOWN" -> 3

\* Python: max(state, State.X).  cmk's State is an enum.Enum and no IntEnum
\* ("Don't use IntEnum to prevent state.CRIT < state.UNKNOWN from evaluating
\* to True"; the library offers State.worst and State.best instead), so two
\* of its members have no order: max compares them with > and raises
\* TypeError ('>' not supported between instances of 'State' and 'State'),
\* also when both are the same member.
MaxState(a, b) == [raised |-> "TypeError", state |-> a]

Result(state, summary) == [state |-> state, summary |-> summary]
Metric(name, value) == [name |-> name, value |-> value]

\* What a check invocation gives the host: the results and metrics yielded,
\* in order, or the exception that ended it.
Outcome(raised, results, metrics) ==
    [raised |-> raised, results |-> results, metrics |-> metrics]

(* ------------------------------ description ---------------------------- *)
Slash == <<"/">>

\* _create_device_description(device_path, model, serial, capacity_bytes) on
\* the values data.get hands it.
CreateDeviceDescription(device_path, model, serial, capacity_bytes) ==
    IF capacity_bytes.t # "num"
    \* capacity_bytes > 0 on a text
    THEN [raised |-> "TypeError", text |-> <<>>]
    ELSE IF Truthy(serial) /\ serial.t # "str"
    \* len(serial) of a number
    THEN [raised |-> "TypeError", text |-> <<>>]
    ELSE IF Truthy(model) /\ model.t # "str"
    \* ' '.join(parts) with a part that is no str
    THEN [raised |-> "TypeError", text |-> <<>>]
    ELSE
      LET p1 == IF Truthy(model) THEN <<model.s>> ELSE <<>>
          p2 == IF capacity_bytes.n > 0
                THEN <<(<<"(">> \o RenderBytes(IntVal(capacity_bytes.n))) \o <<")">>>>
                ELSE <<>>
          p3 == IF Truthy(serial)
                THEN <<(<<"S/N: ">> \o SerialShort(serial.s))>>
                ELSE <<>>
          parts == (p1 \o p2) \o p3
          joined == IF Len(parts) = 1 THEN parts[1]
                    ELSE IF Len(parts) = 2 THEN (parts[1] \o <<" ">>) \o parts[2]
                    ELSE (((parts[1] \o <<" ">>) \o parts[2]) \o <<" ">>) \o parts[3]
      IN IF parts # <<>>
         THEN IF device_path.t # "str"
              \* '/' in device_path on a number
              THEN [raised |-> "TypeError", text |-> <<>>]
              ELSE [raised |-> "none",
                    text |-> ((joined \o OpenParen) \o SplitLast(device_path.s, Slash))
                             \o CloseParen]
         ELSE [raised |-> "none",
               text |-> IF device_path.t = "str" THEN device_path.s
                        ELSE <<ToString(device_path.n)>>]

(* ------------------------------ parameters ----------------------------- *)
\* The check parameters: a Python mapping from the configured keys to their
\* values.  A key is <<operation, suffix>> for f"{operation}{suffix}"; the
\* rate key has no operation.  A value holds the pair (w, c) in one of the
\* shapes a rule can store it in:
\*   "pair"  (w, c)                   the legacy Tuple valuespec
\*   "fixed" ("fixed", (w, c))        the SimpleLevels form spec
\*   "dict"  {"levels_upper": (w, c)}
Levels(f, w, c) == [f |-> f, w |-> w, c |-> c]
RateKey == <<"", "uncorrected_errors_per_tb">>

\* The five counter kinds that are evaluated, in the order of the code:
\* counter field, parameter key suffix, and (oposs) metric suffix, label and
\* the text of the unconfigured report.
Kinds == <<
    [field |-> "total_uncorrected_errors", suffix |-> "_uncorrected_errors_abs",
     metric |-> "_uncorrected_check", label |-> " uncorrected errors",
     plain |-> ""],
    [field |-> "errors_corrected_by_eccfast", suffix |-> "_eccfast_errors_abs",
     metric |-> "_eccfast_check", label |-> " ECC fast errors",
     plain |-> " ECC fast: "],
    [field |-> "errors_corrected_by_eccdelayed", suffix |-> "_eccdelayed_errors_abs",
     metric |-> "_eccdelayed_check", label |-> " ECC delayed errors",
     plain |-> " ECC delayed: "],
    [field |-> "errors_corrected_by_rereads_rewrites",
     suffix |-> "_rereads_rewrites_errors_abs",
     metric |-> "_rereads_rewrites_check", label |-> " rereads/rewrites errors",
     plain |-> " rereads/rewrites: "],
    [field |-> "correction_algorithm_invocations",
     suffix |-> "_algorithm_invocations_abs",
     metric |-> "_algorithm_invocations_check", label |-> " algorithm invocations",
     plain |-> ""] >>

\* Mutant: the operation scan is evaluated as well.
Operations_WithScan == <<"read", "write", "verify", "scan">>

\* for operation in ["read", "write", "verify"]
Operations == <<"read", "write", "verify">>

\* Python: operation.capitalize()
Capitalize(op) ==
    CASE op = "read" -> "Read" [] op = "write" -> "Write"
      [] op = "verify" -> "Verify" [] OTHER -> op

(* ------------------------------ error_counters ------------------------- *)
\* Python: operation in error_counters
HasOp(ec, op) == \E i \in 1..Len(ec.m) : ec.m[i][1] = op

\* Python: error_counters[operation]
OpCounters(ec, op) == ec.m[CHOOSE i \in 1..Len(ec.m) : ec.m[i][1] = op][2]

\* Python: counters.get(field, 0)
Counter(counters, field) == GetOr(counters.c[field], Num(0)).n

(* ------------------------------ device name ---------------------------- *)
\* Mutant: the whole item is taken as the device name.
DeviceName_WholeItem(it) == Strip(it)

\* The first lines of check_*: the device name of a service item.
DeviceName(it) ==
    IF Contains(it, OpenParen) /\ EndsWith(it, CloseParen)
    THEN Strip(SplitFirst(it, OpenParen))
    ELSE Strip(it)

(* ------------------------------ metric loop ---------------------------- *)
\* The accumulators of the first loop over error_counters.items(): oposs
\* keeps the gigabytes of read, write and verify, smart the totals.
Acc0 ==
    [raised |-> "none", metrics |-> <<>>, read_gb |-> 0, write_gb |-> 0,
     verify_gb |-> 0, total_uncorrected |-> 0, total_gb |-> 0]

\* Mutant: the processed gigabytes are reported as they are, not as bytes.
AbsoluteMetrics_Gigabytes(operation, counters, gb) ==
    << Metric(<<operation, "_errors_corrected_by_eccfast">>,
              IntVal(Counter(counters, "errors_corrected_by_eccfast"))),
       Metric(<<operation, "_errors_corrected_by_eccdelayed">>,
              IntVal(Counter(counters, "errors_corrected_by_eccdelayed"))),
       Metric(<<operation, "_errors_corrected_by_rereads_rewrites">>,
              IntVal(Counter(counters, "errors_corrected_by_rereads_rewrites"))),
       Metric(<<operation, "_correction_algorithm_invocations">>,
              IntVal(Counter(counters, "correction_algorithm_invocations"))),
       Metric(<<operation, "_bytes_processed">>, IntVal(gb)),
       Metric(<<operation, "_total_uncorrected_errors">>,
              IntVal(Counter(counters, "total_uncorrected_errors"))) >>

AbsoluteMetrics(operation, counters, gb) ==
    << Metric(<<operation, "_errors_corrected_by_eccfast">>,
              IntVal(Counter(counters, "errors_corrected_by_eccfast"))),
       Metric(<<operation, "_errors_corrected_by_eccdelayed">>,
              IntVal(Counter(counters, "errors_corrected_by_eccdelayed"))),
       Metric(<<operation, "_errors_corrected_by_rereads_rewrites">>,
              IntVal(Counter(counters, "errors_corrected_by_rereads_rewrites"))),
       Metric(<<operation, "_correction_algorithm_invocations">>,
              IntVal(Counter(counters, "correction_algorithm_invocations"))),
       Metric(<<operation, "_bytes_processed">>, Val(gb, 1, 30)),
       Metric(<<operation, "_total_uncorrected_errors">>,
              IntVal(Counter(counters, "total_uncorrected_errors"))) >>

\* Mutant: the rates are taken per gigabyte.
RelativeMetrics_PerGigabyte(v, operation, counters, gb) ==
    IF gb > 0
    THEN << Metric(<<operation, "_errors_corrected_by_eccfast_per_tb">>,
                   Val(Counter(counters, "errors_corrected_by_eccfast"), gb, 0)),
            Metric(<<operation, "_errors_corrected_by_eccdelayed_per_tb">>,
                   Val(Counter(counters, "errors_corrected_by_eccdelayed"), gb, 0)),
            Metric(<<operation, "_errors_corrected_by_rereads_rewrites_per_tb">>,
                   Val(Counter(counters, "errors_corrected_by_rereads_rewrites"), gb, 0)),
            Metric(<<operation, "_correction_algorithm_invocations_per_tb">>,
                   Val(Counter(counters, "correction_algorithm_invocations"), gb, 0)) >>
         \o (IF v = "smart"
             THEN << Metric(<<operation, "_total_uncorrected_errors_per_tb">>,
                            Val(Counter(counters, "total_uncorrected_errors"), gb, 0)) >>
             ELSE <<>>)
    ELSE <<>>

\* if processed_gb > 0: the metrics per terabyte, counter / (gb / 1024);
\* smart adds the uncorrected errors per terabyte.
RelativeMetrics(v, operation, counters, gb) ==
    IF gb > 0
    THEN << Metric(<<operation, "_errors_corrected_by_eccfast_per_tb">>,
                   Val(Counter(counters, "errors_corrected_by_eccfast"), gb, 10)),
            Metric(<<operation, "_errors_corrected_by_eccdelayed_per_tb">>,
                   Val(Counter(counters, "errors_corrected_by_eccdelayed"), gb, 10)),
            Metric(<<operation, "_errors_corrected_by_rereads_rewrites_per_tb">>,
                   Val(Counter(counters, "errors_corrected_by_rereads_rewrites"), gb, 10)),
            Metric(<<operation, "_correction_algorithm_invocations_per_tb">>,
                   Val(Counter(counters, "correction_algorithm_invocations"), gb, 10)) >>
         \o (IF v = "smart"
             THEN << Metric(<<operation, "_total_uncorrected_errors_per_tb">>,
                            Val(Counter(counters, "total_uncorrected_errors"), gb, 10)) >>
             ELSE <<>>)
    ELSE <<>>

\* One iteration of "for operation, counters in error_counters.items()".
MetricsStep(v, acc, operation, counters) ==
    IF counters.t # "ctr" THEN acc
    ELSE LET g == Float(GetOr(counters.c.gigabytes_processed, Str(<<"0">>)))
         IN IF g.raised # "none" THEN [acc EXCEPT !.raised = g.raised]
            ELSE [acc EXCEPT
                    !.read_gb = IF operation = "read" THEN @ + g.f ELSE @,
                    !.write_gb = IF operation = "write" THEN @ + g.f ELSE @,
                    !.verify_gb = IF operation = "verify" THEN @ + g.f ELSE @,
                    !.total_uncorrected =
                        @ + Counter(counters, "total_uncorrected_errors"),
                    !.total_gb = @ + g.f,
                    !.metrics = (@ \o AbsoluteMetrics(operation, counters, g.f))
                                \o RelativeMetrics(v, operation, counters, g.f)]

RECURSIVE MetricsFrom(_, _, _, _)
MetricsFrom(v, ec, i, acc) ==
    IF i > Len(ec.m) \/ acc.raised # "none" THEN acc
    ELSE MetricsFrom(v, ec, i + 1, MetricsStep(v, acc, ec.m[i][1], ec.m[i][2]))

(* ------------------------------ levels --------------------------------- *)
\* Mutant: CRIT only for a value that is exactly the critical level.
LevelsState_Exact(value, w, c) ==
    IF value = c THEN "CRIT" ELSE IF value >= w THEN "WARN" ELSE "OK"

\* The comparison against a pair of upper levels: cmk check_levels with
\* levels_upper = ("fixed", (w, c)) in oposs, the if/elif of smart.
LevelsState(value, w, c) ==
    IF value >= c THEN "CRIT" ELSE IF value >= w THEN "WARN" ELSE "OK"

\* Mutant: the metric of check_levels is named after the label.
CheckLevels_MetricByLabel(value, w, c, metric_name, label) ==
    LET state == LevelsState(value, w, c)
        text == (label \o <<": ">>) \o <<ToString(value)>>
    IN [results |-> <<Result(state,
                             IF state = "OK" THEN text
                             ELSE text \o <<" (warn/crit at ", ToString(w), "/",
                                            ToString(c), ")">>)>>,
        metrics |-> <<Metric(label, IntVal(value))>>]

\* cmk check_levels(value, levels_upper=("fixed", (w, c)), metric_name=...,
\* label=..., render_func=_render_error_count): one result, "<label>:
\* <value>" with the levels after it when they are reached, then one metric.
CheckLevels(value, w, c, metric_name, label) ==
    LET state == LevelsState(value, w, c)
        text == (label \o <<": ">>) \o <<ToString(value)>>
    IN [results |-> <<Result(state,
                             IF state = "OK" THEN text
                             ELSE text \o <<" (warn/crit at ", ToString(w), "/",
                                            ToString(c), ")">>)>>,
        metrics |-> <<Metric(metric_name, IntVal(value))>>]

NoOutput == [results |-> <<>>, metrics |-> <<>>]

\* Mutant: every configured value counts as levels.
OpossConfigured_AnyForm(ps, key) == key \in DOMAIN ps

\* oposs: levels_param and isinstance(levels_param, dict)
\*        and 'levels_upper' in levels_param
OpossConfigured(ps, key) == key \in DOMAIN ps /\ ps[key].f = "dict"

\* Mutant: a configured counter is evaluated whatever its value.
OpossKind_ReportZero(ps, operation, counters, k) ==
    LET kind == Kinds[k]
        value == Counter(counters, kind.field)
        key == <<operation, kind.suffix>>
        metric_name == <<operation, kind.metric>>
        label == <<Capitalize(operation), kind.label>>
    IN IF OpossConfigured(ps, key)
       THEN CheckLevels(value, ps[key].w, ps[key].c, metric_name, label)
       ELSE IF ~(value > 0) THEN NoOutput
       ELSE IF k = 1 THEN CheckLevels(value, 1, 1, metric_name, label)
       ELSE IF k = 5 THEN NoOutput
       ELSE [results |-> <<Result("OK", <<Capitalize(operation), kind.plain,
                                          ToString(value)>>)>>,
             metrics |-> <<>>]

\* Mutant: algorithm invocations without levels are reported as OK.
OpossKind_ReportInvocations(ps, operation, counters, k) ==
    LET kind == Kinds[k]
        value == Counter(counters, kind.field)
        key == <<operation, kind.suffix>>
        metric_name == <<operation, kind.metric>>
        label == <<Capitalize(operation), kind.label>>
    IN IF ~(value > 0) THEN NoOutput
       ELSE IF OpossConfigured(ps, key)
            THEN CheckLevels(value, ps[key].w, ps[key].c, metric_name, label)
       ELSE IF k = 1 THEN CheckLevels(value, 1, 1, metric_name, label)
       ELSE [results |-> <<Result("OK", <<Capitalize(operation), kind.label,
                                          ToString(value)>>)>>,
             metrics |-> <<>>]

\* oposs: the block of one counter kind (Kinds[k]) of one operation.
OpossKind(ps, operation, counters, k) ==
    LET kind == Kinds[k]
        value == Counter(counters, kind.field)
        key == <<operation, kind.suffix>>
        metric_name == <<operation, kind.metric>>
        label == <<Capitalize(operation), kind.label>>
    IN IF ~(value > 0) THEN NoOutput
       ELSE IF OpossConfigured(ps, key)
            THEN CheckLevels(value, ps[key].w, ps[key].c, metric_name, label)
       ELSE IF k = 1
            \* Default behavior - any uncorrected errors are critical
            THEN CheckLevels(value, 1, 1, metric_name, label)
       ELSE IF k = 5
            \* If no levels configured, don't report algorithm invocations
            THEN NoOutput
       ELSE [results |-> <<Result("OK", <<Capitalize(operation), kind.plain,
                                          ToString(value)>>)>>,
             metrics |-> <<>>]

RECURSIVE OpossKindsFrom(_, _, _, _, _)
OpossKindsFrom(ps, operation, counters, k, out) ==
    IF k > Len(Kinds) THEN out
    ELSE LET o == OpossKind(ps, operation, counters, k)
         IN OpossKindsFrom(ps, operation, counters, k + 1,
                           [results |-> out.results \o o.results,
                            metrics |-> out.metrics \o o.metrics])

\* oposs: "for operation in [read, write, verify]", the individual results.
RECURSIVE OpossOperationsFrom(_, _, _, _)
OpossOperationsFrom(ps, ec, i, out) ==
    IF i > Len(Operations) THEN out
    ELSE IF HasOp(ec, Operations[i]) /\ OpCounters(ec, Operations[i]).t = "ctr"
         THEN OpossOperationsFrom(ps, ec, i + 1,
                  OpossKindsFrom(ps, Operations[i], OpCounters(ec, Operations[i]),
                                 1, out))
         ELSE OpossOperationsFrom(ps, ec, i + 1, out)

\* smart: the block of one counter kind of one operation, on the state so
\* far: "if value >= crit: state = max(state, State.CRIT) elif value >=
\* warn: state = max(state, State.WARN)".  A ("fixed", (w, c)) value is a
\* tuple of length 2 as well: it unpacks to warn = "fixed", crit = (w, c),
\* and value >= crit raises TypeError.
SmartKind(ps, operation, op_data, k, state) ==
    LET kind == Kinds[k]
        value == Counter(op_data, kind.field)
        key == <<operation, kind.suffix>>
    IN IF key \in DOMAIN ps
       THEN CASE ps[key].f = "pair" ->
                    IF LevelsState(value, ps[key].w, ps[key].c) = "OK"
                    THEN [raised |-> "none", state |-> state]
                    ELSE MaxState(state, LevelsState(value, ps[key].w, ps[key].c))
              [] ps[key].f = "fixed" -> [raised |-> "TypeError", state |-> state]
              [] OTHER -> [raised |-> "none", state |-> state]
       ELSE IF k = 1 /\ value > 0
            \* Default behavior - any uncorrected errors are critical
            THEN MaxState(state, "CRIT")
            ELSE [raised |-> "none", state |-> state]

RECURSIVE SmartKindsFrom(_, _, _, _, _)
SmartKindsFrom(ps, operation, op_data, k, st) ==
    IF k > Len(Kinds) \/ st.raised # "none" THEN st
    ELSE SmartKindsFrom(ps, operation, op_data, k + 1,
                        SmartKind(ps, operation, op_data, k, st.state))

\* smart: "for operation in [read, write, verify]", the state.  op_data.get
\* on an entry that is no mapping raises AttributeError.
RECURSIVE SmartOperationsFrom(_, _, _, _)
SmartOperationsFrom(ps, ec, i, st) ==
    IF i > Len(Operations) \/ st.raised # "none" THEN st
    ELSE IF ~HasOp(ec, Operations[i]) THEN SmartOperationsFrom(ps, ec, i + 1, st)
    ELSE IF OpCounters(ec, Operations[i]).t # "ctr"
         THEN [raised |-> "AttributeError", state |-> st.state]
    ELSE SmartOperationsFrom(ps, ec, i + 1,
             SmartKindsFrom(ps, Operations[i], OpCounters(ec, Operations[i]), 1, st))

\* smart: "Check rate-based thresholds":
\* total_uncorrected / (total_processed_gb / 1024) against (warn, crit).
RateState(total_uncorrected, total_gb, w, c) ==
    IF total_uncorrected * 1024 >= c * total_gb THEN "CRIT"
    ELSE IF total_uncorrected * 1024 >= w * total_gb THEN "WARN"
    ELSE "OK"

SmartRate(ps, acc, st) ==
    IF st.raised # "none" THEN st
    ELSE IF acc.total_gb > 0 /\ RateKey \in DOMAIN ps
    THEN CASE ps[RateKey].f = "pair" ->
                 IF RateState(acc.total_uncorrected, acc.total_gb,
                              ps[RateKey].w, ps[RateKey].c) = "OK"
                 THEN st
                 ELSE MaxState(st.state,
                               RateState(acc.total_uncorrected, acc.total_gb,
                                         ps[RateKey].w, ps[RateKey].c))
           [] ps[RateKey].f = "fixed" -> [raised |-> "TypeError", state |-> st.state]
           [] OTHER -> st
    ELSE st

(* ------------------------------ the check ------------------------------ *)
\* Python: f"{value}" of a JSON text or number
Format(v) == IF v.t = "str" THEN v.s ELSE <<ToString(v.n)>>

\* Mutant: the missing device reported as CRIT.
NotFoundOutcome_AsCrit(device_name) ==
    Outcome("none",
            <<Result("CRIT", (<<"Device ">> \o device_name) \o <<" not found">>)>>,
            <<>>)

\* if device_name not in section: one UNKNOWN result
NotFoundOutcome(device_name) ==
    Outcome("none",
            <<Result("UNKNOWN", (<<"Device ">> \o device_name) \o <<" not found">>)>>,
            <<>>)

\* Mutant: the message of the record replaced by a fixed text.
ErrorOutcome_FixedText(data) ==
    IF data.t = "obj"
    THEN Outcome("none", <<Result("CRIT", <<"Error: ", "Unknown error">>)>>, <<>>)
    ELSE Outcome("TypeError", <<>>, <<>>)

\* if "error" in data: one CRIT result with data['error']
ErrorOutcome(data) ==
    IF data.t = "obj"
    THEN Outcome("none", <<Result("CRIT", <<"Error: ">> \o Format(data.o.error))>>, <<>>)
    \* data['error'] on a str or a list
    ELSE Outcome("TypeError", <<>>, <<>>)

\* Mutant: the device without counters reported as OK.
NoCountersOutcome_AsOk(device_desc) ==
    Outcome("none",
            <<Result("OK", device_desc \o <<": No error counter data available">>)>>,
            <<>>)

\* if not error_counters: one UNKNOWN result with the device description
NoCountersOutcome(device_desc) ==
    Outcome("none",
            <<Result("UNKNOWN", device_desc \o <<": No error counter data available">>)>>,
            <<>>)

\* The common head of check_oposs_smart_error and check_smart_errors, up to
\* the third early return: either the outcome is final (done), or the check
\* goes on with the device description and the error counters.
CheckHead(it, sec) ==
    LET device_name == DeviceName(it)
        final(o) == [done |-> TRUE, outcome |-> o, desc |-> <<>>, ec |-> Absent]
    IN IF ~HasKey(sec, device_name) THEN final(NotFoundOutcome(device_name))
       ELSE
       LET data == Lookup(sec, device_name)
           e == InError(data)
       IN IF e.raised # "none" THEN final(Outcome(e.raised, <<>>, <<>>))
          ELSE IF e.yes THEN final(ErrorOutcome(data))
          ELSE IF data.t # "obj"
          \* data.get on a str or a list
          THEN final(Outcome("AttributeError", <<>>, <<>>))
          ELSE
          LET error_counters == GetOr(data.o.error_counters, Map(<<>>))
              d == CreateDeviceDescription(GetOr(data.o.device, Str(device_name)),
                                           GetOr(data.o.model, Str(<<>>)),
                                           GetOr(data.o.serial, Str(<<>>)),
                                           GetOr(data.o.capacity_bytes, Num(0)))
          IN IF d.raised # "none" THEN final(Outcome(d.raised, <<>>, <<>>))
             ELSE IF ~Truthy(error_counters) THEN final(NoCountersOutcome(d.text))
             ELSE IF error_counters.t # "map"
             \* error_counters.items() on a value that is no mapping
             THEN final(Outcome("AttributeError", <<>>, <<>>))
             ELSE [done |-> FALSE, outcome |-> Outcome("none", <<>>, <<>>),
                   desc |-> d.text, ec |-> error_counters]

\* oposs: "Show operation-specific processed bytes"
ProcessedSummary(name, gb) ==
    IF gb > 0
    THEN <<Result("OK", (<<name, ": ">> \o RenderBytes(Val(gb, 1, 30)))
                        \o <<" processed">>)>>
    ELSE <<>>

\* check_oposs_smart_error(item, params, section)
CheckOposs(it, ps, sec) ==
    LET h == CheckHead(it, sec)
    IN IF h.done THEN h.outcome
       ELSE LET acc == MetricsFrom("oposs", h.ec, 1, Acc0)
                ind == OpossOperationsFrom(ps, h.ec, 1, NoOutput)
            IN IF acc.raised # "none" THEN Outcome(acc.raised, <<>>, acc.metrics)
               ELSE Outcome("none",
                        (((<<Result("OK", h.desc)>> \o ind.results)
                          \o ProcessedSummary("Read", acc.read_gb))
                          \o ProcessedSummary("Write", acc.write_gb))
                          \o ProcessedSummary("Verify", acc.verify_gb),
                        acc.metrics \o ind.metrics)

\* smart: the totals of the corrected errors, over the operations whose
\* counters are a mapping.
RECURSIVE TotalOf(_, _, _)
TotalOf(ec, field, i) ==
    IF i > Len(ec.m) THEN 0
    ELSE (IF ec.m[i][2].t = "ctr" THEN Counter(ec.m[i][2], field) ELSE 0)
         + TotalOf(ec, field, i + 1)

\* Python: ', '.join(parts)
RECURSIVE JoinComma(_)
JoinComma(parts) ==
    IF parts = <<>> THEN <<>>
    ELSE IF Len(parts) = 1 THEN parts[1]
    ELSE (parts[1] \o <<", ">>) \o JoinComma(Tail(parts))

\* smart: "Build summary with specific error types"
SmartSummary(desc, ec, acc) ==
    LET part(n, text) == IF n > 0 THEN <<(<<ToString(n), text>>)>> ELSE <<>>
        correction_parts ==
            (part(TotalOf(ec, "errors_corrected_by_eccfast", 1), " ECC fast")
             \o part(TotalOf(ec, "errors_corrected_by_eccdelayed", 1), " ECC delayed"))
             \o part(TotalOf(ec, "errors_corrected_by_rereads_rewrites", 1),
                     " rereads/rewrites")
        errors == part(acc.total_uncorrected, " uncorrected errors")
                  \o (IF correction_parts # <<>>
                      THEN <<(<<"Corrected: ">> \o JoinComma(correction_parts))>>
                      ELSE <<>>)
        summary_parts ==
            (IF errors = <<>> THEN <<(<<"No errors detected">>)>> ELSE errors)
            \o (IF acc.total_gb > 0
                THEN <<(RenderBytes(Val(acc.total_gb, 1, 30)) \o <<" processed">>)>>
                ELSE <<>>)
    IN (desc \o <<": ">>) \o JoinComma(summary_parts)

\* check_smart_errors(item, params, section)
CheckSmart(it, ps, sec) ==
    LET h == CheckHead(it, sec)
    IN IF h.done THEN h.outcome
       ELSE LET acc == MetricsFrom("smart", h.ec, 1, Acc0)
                metrics == acc.metrics
                           \o <<Metric(<<"total_bytes_processed">>,
                                       Val(acc.total_gb, 1, 30))>>
                st == SmartRate(ps, acc,
                        SmartOperationsFrom(ps, h.ec, 1,
                                            [raised |-> "none", state |-> "OK"]))
            IN IF acc.raised # "none" THEN Outcome(acc.raised, <<>>, acc.metrics)
               ELSE IF st.raised # "none" THEN Outcome(st.raised, <<>>, metrics)
               ELSE Outcome("none",
                            <<Result(st.state, SmartSummary(h.desc, h.ec, acc))>>,
                            metrics)

\* The check function of the installed plugin.
Check(v, it, ps, sec) ==
    IF v = "oposs" THEN CheckOposs(it, ps, sec) ELSE CheckSmart(it, ps, sec)

\* The state the host shows for a service: the worst state of the results
\* of its check (cmk State.worst: CRIT over UNKNOWN over WARN over OK).
Severity(o) ==
    IF \E i \in 1..Len(o.results) : o.results[i].state = "CRIT" THEN "CRIT"
    ELSE IF \E i \in 1..Len(o.results) : o.results[i].state = "UNKNOWN" THEN "UNKNOWN"
    ELSE IF \E i \in 1..Len(o.results) : o.results[i].state = "WARN" THEN "WARN"
    ELSE "OK"

(* ------------------------------ inputs --------------------------------- *)
Variants == {"oposs", "smart"}

Sda == <<"s", "d", "a">>
SdaX == <<"s", "d", "a", " ", "(", "x", ")">>
DevSda == <<"/", "d", "e", "v", "/", "s", "d", "a">>
SerialY == <<"y">>
SerialXY == <<"x", ")", " ", "(", "y">>
SerialLong == <<"1", "2", "3", "4", "5", "6", "7", "8", "9", "0">>
ModelX == <<"X">>

\* The counters of one operation; a field left out is absent from the JSON.
Counters(eccfast, eccdelayed, rereads, invocations, uncorrected, gb) ==
    Ctr([errors_corrected_by_eccfast |-> eccfast,
         errors_corrected_by_eccdelayed |-> eccdelayed,
         errors_corrected_by_rereads_rewrites |-> rereads,
         correction_algorithm_invocations |-> invocations,
         total_uncorrected_errors |-> uncorrected,
         gigabytes_processed |-> gb])

CleanCounters == Counters(Num(0), Num(0), Num(0), Num(0), Num(0), Str(<<"2">>))
BadGbCounters == Counters(Absent, Absent, Absent, Absent, Absent, Str(<<"a", "b", "c">>))

\* The JSON values the agent sends for a device in the host cycle.
CycleBlobs ==
    { \* not an object
      Num(5), Str(<<"a", "b", "c">>), List(<<>>),
      \* an object with the key "error" beside its counters
      Blob(Str(<<"smartctl failed">>), Absent, Absent, Str(SerialY), Absent,
           Map(<<<<"read", CleanCounters>>>>)),
      \* well-typed device blobs
      Blob(Absent, Absent, Absent, Absent, Absent, Absent),
      Blob(Absent, Absent, Absent, Str(SerialY), Absent,
           Map(<<<<"read", CleanCounters>>>>)),
      Blob(Absent, Absent, Absent, Str(SerialXY), Absent, Map(<<>>)),
      Blob(Absent, Str(DevSda), Str(ModelX), Str(SerialLong), Num(2048),
           Map(<<<<"read", CleanCounters>>>>)),
      \* fields of unexpected types
      Blob(Absent, Absent, Absent, Num(7), Absent, Map(<<<<"read", CleanCounters>>>>)),
      Blob(Absent, Absent, Absent, Str(SerialY), Absent,
           Map(<<<<"read", BadGbCounters>>>>)) }

Timeout == <<"timeout">>

\* The rows the agent can send for a device: too short, ERROR with and
\* without a message, a text that is no JSON, and the JSON texts.
RowsOf(name) ==
    {<<name>>, <<name, ErrorLiteral>>, <<name, ErrorLiteral, Timeout>>,
     <<name, BadText>>}
    \cup {<<name, JsonText(b)>> : b \in CycleBlobs}

\* A second device, whose name holds " (": fewer kinds of rows.
Rows ==
    RowsOf(Sda)
    \cup {<<SdaX>>, <<SdaX, ErrorLiteral, Timeout>>, <<SdaX, JsonText(Num(5))>>,
          <<SdaX, JsonText(Blob(Absent, Absent, Absent, Str(SerialY), Absent,
                                Map(<<<<"read", CleanCounters>>>>)))>>,
          <<SdaX, JsonText(Blob(Absent, Absent, Absent, Absent, Absent, Absent))>>}

Tables == UNION {[1..n -> Rows] : n \in 0..MaxRows}

NoServices == [raised |-> "unset", items |-> <<>>]
NoOutcome == Outcome("unset", <<>>, <<>>)
\* check_default_parameters={}
DefaultParams == <<>>

(* ------------------------------ the host cycle ------------------------- *)
Init ==
    /\ variant \in Variants
    /\ string_table = <<>>
    /\ section = <<>>
    /\ services = NoServices
    /\ item = <<>>
    /\ params = DefaultParams
    /\ outcome = NoOutcome
    /\ phase = "idle"

\* The agent output of a new cycle arrives.
Collect ==
    /\ phase = "idle"
    /\ string_table' \in Tables
    /\ phase' = "collected"
    /\ UNCHANGED <<variant, section, services, item, params, outcome>>

\* The host runs the parse function of the agent section.
ParseSection ==
    /\ phase = "collected"
    /\ section' = Parse(string_table)
    /\ phase' = "parsed"
    /\ UNCHANGED <<variant, string_table, services, item, params, outcome>>

\* The host runs the discovery function.
DiscoverServices ==
    /\ phase = "parsed"
    /\ services' = Discover(section)
    /\ phase' = "discovered"
    /\ UNCHANGED <<variant, string_table, section, item, params, outcome>>

\* The host takes a discovered service into monitoring.
Monitor ==
    /\ phase = "discovered"
    /\ services.raised = "none"
    /\ \E i \in 1..Len(services.items) :
          /\ item # services.items[i]
          /\ item' = services.items[i]
    /\ UNCHANGED <<variant, string_table, section, services, params, outcome, phase>>

\* The host runs the check function for the monitored service.
CheckService ==
    /\ phase \in {"parsed", "discovered"}
    /\ item # <<>>
    /\ outcome' = Check(variant, item, params, section)
    /\ phase' = "checked"
    /\ UNCHANGED <<variant, string_table, section, services, item, params>>

\* The cycle ends: the host discards the section and what came of it; only
\* the monitored service stays.
EndCycle ==
    /\ phase \in {"parsed", "discovered", "checked"}
    /\ string_table' = <<>>
    /\ section' = <<>>
    /\ services' = NoServices
    /\ outcome' = NoOutcome
    /\ phase' = "idle"
    /\ UNCHANGED <<variant, item, params>>

Next ==
    \/ Collect
    \/ ParseSection
    \/ DiscoverServices
    \/ Monitor
    \/ CheckService
    \/ EndCycle

Spec == Init /\ [][Next]_vars

(* ------------------------------ one check, all inputs ------------------ *)
\* The check function as a function of its inputs: one device, its counters
\* and the rule in force drawn from bounded sets, and the check applied.

\* Counters with the value x for the counter kind Kinds[k] alone; the other
\* kinds are left out of the JSON.
Profile(k, x, gb) ==
    Counters(IF k = 2 THEN Num(x) ELSE Absent, IF k = 3 THEN Num(x) ELSE Absent,
             IF k = 4 THEN Num(x) ELSE Absent, IF k = 5 THEN Num(x) ELSE Absent,
             IF k = 1 THEN Num(x) ELSE Absent, gb)

\* One kind at a time with 2 gigabytes; corrected and uncorrected errors
\* together; no, zero and one gigabyte; gigabytes that are no number.
Profiles ==
    {Profile(k, x, Str(<<"2">>)) : k \in 1..5, x \in 0..MaxCount}
    \cup {Counters(Num(x), Num(1), Absent, Num(1), Num(u), Str(<<"2">>)) :
            x \in 1..MaxCount, u \in 1..MaxCount}
    \cup {Profile(k, MaxCount, gb) : k \in 1..2, gb \in {Absent, Num(0), Num(1)}}
    \cup {BadGbCounters}

BusyCounters == Counters(Num(1), Num(0), Absent, Num(MaxCount), Num(0), Num(1))

\* error_counters around the counters p: each operation alone, several
\* operations in and out of the order read, write, verify, an operation of
\* another name, and entries that are no mapping.
CounterMaps(p) ==
    { <<<<"read", p>>>>, <<<<"write", p>>>>, <<<<"verify", p>>>>,
      <<<<"write", BusyCounters>>, <<"read", p>>>>,
      <<<<"read", BusyCounters>>, <<"write", CleanCounters>>, <<"verify", p>>>>,
      <<<<"scan", p>>>>,
      <<<<"read", p>>, <<"scan", Num(1)>>>>,
      <<<<"read", Num(1)>>, <<"write", p>>>> }

CheckBlobs ==
    {Blob(Absent, Absent, Absent, Absent, Absent, Map(m)) :
        m \in UNION {CounterMaps(p) : p \in Profiles}}

Forms == {"pair", "fixed", "dict"}
LevelPairs == {pr \in (0..MaxLevel) \X (0..MaxLevel) : pr[1] <= pr[2]}
\* Rates per terabyte: a gigabyte is 1/1024 terabyte.
RatePairs == {<<1024 * pr[1], 1024 * pr[2]>> : pr \in LevelPairs}
CounterKey(op, k) == <<op, Kinds[k].suffix>>

\* The rules: none, one key, the rate, and two keys together.
ParamSets ==
    {DefaultParams}
    \cup {CounterKey(Operations[o], k) :> Levels(f, pr[1], pr[2]) :
            o \in 1..3, k \in 1..5, f \in Forms, pr \in LevelPairs}
    \cup {RateKey :> Levels(f, pr[1], pr[2]) : f \in Forms, pr \in RatePairs}
    \cup {(CounterKey("read", 1) :> Levels(f, pr[1], pr[2]))
          @@ (CounterKey("read", 2) :> Levels(f, 1, MaxLevel)) :
            f \in Forms, pr \in LevelPairs}
    \cup {(CounterKey("read", 1) :> Levels(f, pr[1], pr[2]))
          @@ (RateKey :> Levels(f, 0, 1024)) :
            f \in Forms, pr \in LevelPairs}

InitCheck ==
    /\ variant \in Variants
    /\ \E b \in CheckBlobs : string_table = <<<<Sda, JsonText(b)>>>>
    /\ section = Parse(string_table)
    /\ services = Discover(section)
    /\ item = services.items[1]
    /\ params \in ParamSets
    /\ outcome = NoOutcome
    /\ phase = "discovered"

NextCheck == CheckService

SpecCheck == InitCheck /\ [][NextCheck]_vars

(* ------------------------------ one check, all descriptions ------------ *)
\* The check function as a function of the fields that describe the device:
\* a device path with and without "/", a model that is missing, empty or
\* given, a serial of 1, 8 and 10 characters, a capacity of 0, 5 and 2048
\* bytes, each with and without counters.
DescribedBlobs ==
    {Blob(Absent, device, model, serial, capacity_bytes, error_counters) :
        device \in {Absent, Str(DevSda), Str(Sda)},
        model \in {Absent, Str(<<>>), Str(ModelX)},
        serial \in {Absent, Str(SerialY), Str(SubSeq(SerialLong, 1, 8)), Str(SerialLong)},
        capacity_bytes \in {Absent, Num(0), Num(5), Num(2048)},
        error_counters \in {Absent, Map(<<<<"read", CleanCounters>>>>)}}

InitDescribe ==
    /\ variant \in Variants
    /\ \E b \in DescribedBlobs : string_table = <<<<Sda, JsonText(b)>>>>
    /\ section = Parse(string_table)
    /\ services = Discover(section)
    /\ item = services.items[1]
    /\ params = DefaultParams
    /\ outcome = NoOutcome
    /\ phase = "discovered"

NextDescribe == CheckService

SpecDescribe == InitDescribe /\ [][NextDescribe]_vars

(* ------------------------------ records of the data model -------------- *)
\* An ErrorRecord: a mapping with the key "error".
IsErrorRecord(data) == data.t = "obj" /\ data.o.error.t # "absent"

\* The counters of an operation as the data model has them.
WellTypedCounters(c) ==
    /\ c.t = "ctr"
    /\ \A f \in DOMAIN c.c \ {"gigabytes_processed"} : c.c[f].t \in {"absent", "num"}
    /\ Float(GetOr(c.c.gigabytes_processed, Str(<<"0">>))).raised = "none"

\* A DataRecord: a mapping without the key "error" whose fields have the
\* types of the data model.
IsDataRecord(data) ==
    /\ data.t = "obj"
    /\ data.o.error.t = "absent"
    /\ data.o.device.t \in {"absent", "str"}
    /\ data.o.model.t \in {"absent", "str"}
    /\ data.o.serial.t \in {"absent", "str"}
    /\ data.o.capacity_bytes.t \in {"absent", "num"}
    /\ data.o.error_counters.t \in {"absent", "map"}
    /\ data.o.error_counters.t = "map" =>
          \A i \in 1..Len(data.o.error_counters.m) :
             WellTypedCounters(data.o.error_counters.m[i][2])

Checked == outcome.raised # "unset"
Discovered == services.raised # "unset"
CheckedName == DeviceName(item)

(* ------------------------------ claims --------------------------------- *)
\* C1: bad data of one device never aborts discovery or the check of a
\* different, healthy device of the same section: when the section holds a
\* DataRecord, discovery ends without an exception, and the check of a device
\* whose record is an ErrorRecord or a DataRecord ends without one.
C1_NoAbort ==
    /\ (Discovered /\ \E i \in 1..Len(section) : IsDataRecord(section[i].data))
          => services.raised = "none"
    /\ (Checked /\ HasKey(section, CheckedName)
          /\ (\/ IsErrorRecord(Lookup(section, CheckedName))
              \/ IsDataRecord(Lookup(section, CheckedName))))
          => outcome.raised = "none"

\* C6: when the device name resolved from the item is no key of the section,
\* the check gives exactly one result, UNKNOWN "Device <name> not found", and
\* no metric.
C6_NotFound ==
    (Checked /\ ~HasKey(section, CheckedName))
    => /\ outcome.raised = "none"
       /\ Len(outcome.results) = 1
       /\ outcome.results[1].state = "UNKNOWN"
       /\ outcome.results[1].summary = (<<"Device ">> \o CheckedName) \o <<" not found">>
       /\ outcome.metrics = <<>>

C6_Witness ==
    /\ Checked /\ section # <<>> /\ ~HasKey(section, CheckedName)
    /\ outcome.results[1].state = "UNKNOWN"

\* C7: when the record of the resolved device is an ErrorRecord, the check
\* gives exactly one result, CRIT "Error: <message>" with the message of the
\* record as it is, and no metric.
C7_ErrorRecord ==
    (Checked /\ HasKey(section, CheckedName)
       /\ IsErrorRecord(Lookup(section, CheckedName)))
    => /\ outcome.raised = "none"
       /\ Len(outcome.results) = 1
       /\ outcome.results[1].state = "CRIT"
       /\ outcome.results[1].summary
             = <<"Error: ">> \o Lookup(section, CheckedName).o.error.s
       /\ outcome.metrics = <<>>

C7_Witness ==
    /\ Checked /\ HasKey(section, CheckedName)
    /\ IsErrorRecord(Lookup(section, CheckedName))
    /\ Lookup(section, CheckedName).o.error.s = Timeout
    /\ outcome.results[1].state = "CRIT"

\* C8: when the record of the resolved device is a DataRecord whose
\* error_counters is empty or missing, the check gives exactly one result,
\* UNKNOWN "<device description>: No error counter data available", and no
\* metric.
NoCounters(data) ==
    \/ data.o.error_counters.t = "absent"
    \/ data.o.error_counters = Map(<<>>)

DescriptionOf(name, data) ==
    CreateDeviceDescription(GetOr(data.o.device, Str(name)), GetOr(data.o.model, Str(<<>>)),
                            GetOr(data.o.serial, Str(<<>>)),
                            GetOr(data.o.capacity_bytes, Num(0))).text

C8_NoCounters ==
    (Checked /\ HasKey(section, CheckedName)
       /\ IsDataRecord(Lookup(section, CheckedName))
       /\ NoCounters(Lookup(section, CheckedName)))
    => /\ outcome.raised = "none"
       /\ Len(outcome.results) = 1
       /\ outcome.results[1].state = "UNKNOWN"
       /\ outcome.results[1].summary
             = DescriptionOf(CheckedName, Lookup(section, CheckedName))
               \o <<": No error counter data available">>
       /\ outcome.metrics = <<>>

C8_Witness ==
    /\ Checked /\ HasKey(section, CheckedName)
    /\ IsDataRecord(Lookup(section, CheckedName))
    /\ Lookup(section, CheckedName).o.error_counters = Map(<<>>)
    /\ outcome.results[1].state = "UNKNOWN"

\* The identity the data model gives a device: the name, then " (", then the
\* last 8 characters of a serial that is not empty (all of it when it has 8
\* or fewer) or the text no-serial, then ")".
SerialSuffix(serial) ==
    IF serial = <<>> THEN NoSerial
    ELSE LET n == IF Len(serial) < 8 THEN Len(serial) ELSE 8
         IN [i \in 1..n |-> serial[Len(serial) - n + i]]

Identity(name, data) ==
    ((name \o <<" ", "(">>) \o SerialSuffix(GetOr(data.o.serial, Str(<<>>)).s)) \o <<")">>

DataDevices == {i \in 1..Len(section) : IsDataRecord(section[i].data)}

\* C9: discovery yields exactly one service for every device whose record is
\* a DataRecord, none for a device whose record is an ErrorRecord, and the
\* item is the identity of the device.
C9_OneServicePerDataRecord ==
    Discovered
    => /\ Len(services.items) = Cardinality(DataDevices)
       /\ \A i \in DataDevices :
             \E j \in 1..Len(services.items) :
                services.items[j] = Identity(section[i].name, section[i].data)

\* C10: two different devices discovered from one section never get the same
\* service item.
C10_DistinctItems ==
    (Discovered /\ services.raised = "none")
    => \A i, j \in 1..Len(services.items) : i # j => services.items[i] # services.items[j]

(* ------------------------------ claims on the evaluation --------------- *)
Rec == Lookup(section, CheckedName)

\* The check has reached the evaluation of the counters: the record of the
\* device is a DataRecord with counters.
ReachedEvaluation ==
    /\ Checked /\ HasKey(section, CheckedName)
    /\ LET rec == Rec IN IsDataRecord(rec) /\ ~NoCounters(rec)

Ec == Rec.o.error_counters

\* The shape in which the rule set of each plugin stores a pair of levels:
\* SimpleLevels in rulesets/oposs_smart_error.py, Tuple in
\* rulesets/smart_errors.py.
RuleForm(v) == IF v = "oposs" THEN "fixed" ELSE "pair"

\* The rule in force is one that the rule set of the plugin can store.
OwnRule == \A key \in DOMAIN params : params[key].f = RuleForm(variant)

\* The operations whose counters are evaluated: read, write, verify, when in
\* error_counters.
EvaluatedOps(ec) == {op \in {"read", "write", "verify"} : HasOp(ec, op)}

Observed(ec, op, k) == Counter(OpCounters(ec, op), Kinds[k].field)

Threshold(warn, crit, observed) ==
    CASE observed >= crit -> "CRIT"
      [] observed < crit /\ observed >= warn -> "WARN"
      [] OTHER -> "OK"

\* oposs: the result lines of the counter kind k of the operation op
LinesOf(op, k) ==
    {i \in 1..Len(outcome.results) :
        /\ Len(outcome.results[i].summary) >= 2
        /\ outcome.results[i].summary[1] = Capitalize(op)
        /\ outcome.results[i].summary[2] \in {Kinds[k].label, Kinds[k].plain}}

\* C2: gigabytes_processed that is a text but no number ends the check of
\* the device in a returned result, never in an exception.
HasBadGigabytes ==
    /\ HasKey(section, CheckedName)
    /\ LET rec == Rec
       IN /\ rec.t = "obj" /\ rec.o.error.t = "absent" /\ rec.o.error_counters.t = "map"
          /\ \E i \in 1..Len(rec.o.error_counters.m) :
                LET counters == rec.o.error_counters.m[i][2]
                IN /\ counters.t = "ctr"
                   /\ counters.c.gigabytes_processed.t = "str"
                   /\ Float(counters.c.gigabytes_processed).raised = "ValueError"

C2_BadGigabytesReturned ==
    (Checked /\ HasBadGigabytes) => (outcome.raised = "none" /\ outcome.results # <<>>)

\* C3: with a pair (warn, crit) configured for a counter under its
\* <op>_<kind>_abs key, as the rule set of the plugin stores it, an observed
\* value > 0 evaluates to CRIT if observed >= crit, else to WARN if observed
\* >= warn, else to OK: oposs gives the counter one result line of that
\* state, smart a severity of at least that state.
C3_ConfiguredPair ==
    (ReachedEvaluation /\ OwnRule)
    => LET ec == Ec
           severity == Severity(outcome)
       IN \A op \in EvaluatedOps(ec) : \A k \in 1..5 :
          (Observed(ec, op, k) > 0 /\ CounterKey(op, k) \in DOMAIN params)
          => LET expected == Threshold(params[CounterKey(op, k)].w,
                                       params[CounterKey(op, k)].c, Observed(ec, op, k))
                 lines == LinesOf(op, k)
             IN /\ outcome.raised = "none"
                /\ variant = "oposs" =>
                      /\ Cardinality(lines) = 1
                      /\ \A i \in lines : outcome.results[i].state = expected
                /\ variant = "smart" => StateValue(severity) >= StateValue(expected)

\* C4: a counter without configured threshold: a positive uncorrected
\* counter of read, write or verify makes the check CRIT (oposs: by one CRIT
\* line of that counter); positive counters of the other kinds contribute no
\* severity (oposs: their lines, if any, are OK), so a record whose counters
\* are all unconfigured and whose uncorrected counters are 0 checks OK.
Unconfigured(op, k) == CounterKey(op, k) \notin DOMAIN params

C4_UnconfiguredDefault ==
    (ReachedEvaluation /\ OwnRule) =>
      LET ec == Ec
          ops == EvaluatedOps(ec)
          severity == Severity(outcome)
      IN
      /\ \A op \in ops :
            (Observed(ec, op, 1) > 0 /\ Unconfigured(op, 1)) =>
               /\ outcome.raised = "none"
               /\ severity = "CRIT"
               /\ variant = "oposs" =>
                     LET lines == LinesOf(op, 1)
                     IN /\ Cardinality(lines) = 1
                        /\ \A i \in lines : outcome.results[i].state = "CRIT"
      /\ \A op \in ops : \A k \in 2..5 :
            (variant = "oposs" /\ Observed(ec, op, k) > 0 /\ Unconfigured(op, k)) =>
               \A i \in LinesOf(op, k) : outcome.results[i].state = "OK"
      /\ (/\ RateKey \notin DOMAIN params
          /\ \A op \in ops :
                Observed(ec, op, 1) = 0 /\ \A k \in 1..5 : Unconfigured(op, k))
         => (outcome.raised = "none" /\ severity = "OK")

\* The form of levels that the check function of each plugin reads.
Honoured(op, k) ==
    /\ CounterKey(op, k) \in DOMAIN params
    /\ params[CounterKey(op, k)].f = (IF variant = "oposs" THEN "dict" ELSE "pair")

\* the states of the counter evaluations made in the check
CounterStates(ec) ==
    {st \in {"OK", "WARN", "CRIT"} :
        \E op \in EvaluatedOps(ec) : \E k \in 1..5 :
           LET key == CounterKey(op, k)
               v == Observed(ec, op, k)
           IN \/ /\ Honoured(op, k)
                 /\ variant = "oposs" => v > 0
                 /\ st = Threshold(params[key].w, params[key].c, v)
              \/ /\ k = 1 /\ v > 0 /\ st = "CRIT"
                 /\ IF variant = "oposs" THEN ~Honoured(op, k) ELSE Unconfigured(op, k)
              \/ /\ variant = "oposs" /\ k \in 2..4 /\ v > 0 /\ ~Honoured(op, k)
                 /\ st = "OK"}

Worst(states) ==
    CASE "CRIT" \in states -> "CRIT"
      [] "CRIT" \notin states /\ "WARN" \in states -> "WARN"
      [] OTHER -> "OK"

\* C5: a check that reaches the evaluation of the counters ends with a
\* severity, the maximum of the states of the counter evaluations made in
\* it, OK when there is none.  (The rule in force holds counter keys only.)
C5_MaxOfCounterStates ==
    (ReachedEvaluation /\ RateKey \notin DOMAIN params
       /\ (variant = "smart" => \A key \in DOMAIN params : params[key].f # "fixed"))
    => /\ outcome.raised = "none"
       /\ Severity(outcome) = Worst(CounterStates(Ec))

(* ------------------------------ claims on identity and cycles ---------- *)
\* C11: the check called with the item that discovery built for a device
\* whose record is a DataRecord resolves to the name of that device and reads
\* that device's record.
C11_ResolutionInvertsIdentity ==
    Checked =>
       \A i \in DataDevices :
          item = Identity(section[i].name, section[i].data)
          => /\ CheckedName = section[i].name
             /\ HasKey(section, CheckedName)
             /\ Lookup(section, CheckedName) = section[i].data

\* C12: an item discovered for a device from a DataRecord is checkable in
\* every later cycle: when the row of the device in the cycle at hand is
\* [name, "ERROR", msg], the check of the item gives CRIT "Error: <msg>".
\* (The item is one that discovery builds for the name of the row from a
\* DataRecord, and no device of the cycle at hand has it: it was taken into
\* monitoring in an earlier cycle.)
C12_CheckableInLaterCycles ==
    (Checked /\ \A i \in DataDevices : item # Identity(section[i].name, section[i].data))
    => \A r \in 1..Len(string_table) :
          LET row == string_table[r]
          IN (/\ Len(row) = 3 /\ row[2] = ErrorLiteral
              /\ \A q \in (r + 1)..Len(string_table) : string_table[q][1] # row[1]
              /\ \E b \in CycleBlobs : IsDataRecord(b) /\ item = Identity(row[1], b))
             => /\ outcome.raised = "none"
                /\ outcome.results = <<Result("CRIT", <<"Error: ">> \o row[3])>>
                /\ outcome.metrics = <<>>

(* ------------------------------ claims on the parser ------------------- *)
\* The section at hand is the parsed string table.
Parsed == phase \in {"parsed", "discovered", "checked"}

\* C13: the section has a key d exactly when a row of at least 2 fields has
\* d as field 0, and the record of d is the one of the last such row alone;
\* shorter rows add no key and change no record.
C13_LastRowWins ==
    Parsed =>
       LET RowsOfName(d) == {r \in 1..Len(string_table) :
                               Len(string_table[r]) >= 2 /\ string_table[r][1] = d}
           Last(d) == CHOOSE r \in RowsOfName(d) : \A q \in RowsOfName(d) : q <= r
       IN /\ \A r \in 1..Len(string_table) :
                Len(string_table[r]) >= 2 => HasKey(section, string_table[r][1])
          /\ \A i, j \in 1..Len(section) : section[i].name = section[j].name => i = j
          /\ \A i \in 1..Len(section) :
                /\ RowsOfName(section[i].name) # {}
                /\ section[i].data
                     = Parse(<<string_table[Last(section[i].name)]>>)[1].data

\* two rows of one device with different records have been parsed
C13_Witness ==
    /\ Parsed /\ Len(string_table) = 2 /\ Len(section) = 1
    /\ Len(string_table[1]) >= 2 /\ Len(string_table[2]) >= 2
    /\ Parse(<<string_table[1]>>) # Parse(<<string_table[2]>>)
    /\ section = Parse(<<string_table[2]>>)

\* C14: a row whose field 1 is the text ERROR gives an ErrorRecord with
\* field 2 as message if the row has one, with "Unknown error" if not.
C14_ErrorRow ==
    Parsed =>
       \A r \in 1..Len(string_table) :
          LET row == string_table[r]
          IN (/\ Len(row) >= 2 /\ row[2] = ErrorLiteral
              /\ \A q \in (r + 1)..Len(string_table) :
                    Len(string_table[q]) >= 2 => string_table[q][1] # row[1])
             => /\ HasKey(section, row[1])
                /\ IsErrorRecord(Lookup(section, row[1]))
                /\ Lookup(section, row[1]).o.error
                     = Str(IF Len(row) >= 3 THEN row[3] ELSE <<"Unknown error">>)

\* an ERROR row with a message and one without have been parsed
C14_Witness ==
    /\ Parsed /\ Len(section) = 2
    /\ \E r, q \in 1..Len(string_table) :
          /\ Len(string_table[r]) = 2 /\ string_table[r][2] = ErrorLiteral
          /\ Len(string_table[q]) = 3 /\ string_table[q][2] = ErrorLiteral
    /\ \E i \in 1..2 : /\ IsErrorRecord(section[i].data)
                        /\ section[i].data.o.error = Str(<<"Unknown error">>)
    /\ \E i \in 1..2 : /\ IsErrorRecord(section[i].data)
                        /\ section[i].data.o.error = Str(Timeout)

\* C15: a row of at least 2 fields whose field 1 is neither ERROR nor JSON
\* gives an ErrorRecord with the message "Invalid JSON data", and the whole
\* table is parsed as if that row were the row [name, "ERROR", "Invalid JSON
\* data"].
C15_InvalidJsonRow ==
    Parsed =>
       /\ \A r \in 1..Len(string_table) :
             LET row == string_table[r]
             IN (/\ Len(row) >= 2 /\ row[2] = BadText
                 /\ \A q \in (r + 1)..Len(string_table) :
                       Len(string_table[q]) >= 2 => string_table[q][1] # row[1])
                => /\ HasKey(section, row[1])
                   /\ Lookup(section, row[1]).o.error = Str(<<"Invalid JSON data">>)
       /\ section = Parse([r \in 1..Len(string_table) |->
                             IF Len(string_table[r]) >= 2 /\ string_table[r][2] = BadText
                             THEN <<string_table[r][1], ErrorLiteral, <<"Invalid JSON data">>>>
                             ELSE string_table[r]])

\* a row that is no JSON has been parsed before the row of another device
C15_Witness ==
    /\ Parsed /\ Len(string_table) = 2 /\ Len(section) = 2
    /\ Len(string_table[1]) >= 2 /\ string_table[1][2] = BadText
    /\ section[1].data.o.error = Str(<<"Invalid JSON data">>)
    /\ IsDataRecord(section[2].data)

(* ------------------------------ claims on the metrics ------------------ *)
\* A metric name <operation>_<counter-kind> or
\* <operation>_<counter-kind>_per_tb of one of the six counter kinds, or
\* total_bytes_processed.
NamedByPattern(name) ==
    \/ name = <<"total_bytes_processed">>
    \/ /\ Len(name) = 2
       /\ name[2] \in {"_errors_corrected_by_eccfast", "_errors_corrected_by_eccdelayed",
                       "_errors_corrected_by_rereads_rewrites",
                       "_correction_algorithm_invocations", "_total_uncorrected_errors",
                       "_bytes_processed",
                       "_errors_corrected_by_eccfast_per_tb",
                       "_errors_corrected_by_eccdelayed_per_tb",
                       "_errors_corrected_by_rereads_rewrites_per_tb",
                       "_correction_algorithm_invocations_per_tb",
                       "_total_uncorrected_errors_per_tb", "_bytes_processed_per_tb"}

\* C16 as stated: every metric of a check is named by the pattern, also when
\* thresholds are evaluated.
C16_MetricNames ==
    Checked => \A i \in 1..Len(outcome.metrics) : NamedByPattern(outcome.metrics[i].name)

\* C16, amended: every metric of a check is named by the pattern or, in the
\* oposs plugin, is the metric of an evaluated counter of read, write or
\* verify: <operation>_uncorrected_check, _eccfast_check, _eccdelayed_check,
\* _rereads_rewrites_check or _algorithm_invocations_check.
C16_MetricNamesOrCheck ==
    Checked =>
       \A i \in 1..Len(outcome.metrics) :
          LET name == outcome.metrics[i].name
          IN \/ NamedByPattern(name)
             \/ /\ variant = "oposs" /\ Len(name) = 2
                /\ name[1] \in {"read", "write", "verify"}
                /\ name[2] \in {"_uncorrected_check", "_eccfast_check",
                                "_eccdelayed_check", "_rereads_rewrites_check",
                                "_algorithm_invocations_check"}

\* a check has given metrics of counters, metrics per terabyte and the
\* metric of an evaluated counter
C16_Witness ==
    /\ Checked /\ outcome.raised = "none"
    /\ \E i \in 1..Len(outcome.metrics) : outcome.metrics[i].name = <<"read", "_eccfast_check">>
    /\ \E i \in 1..Len(outcome.metrics) :
          outcome.metrics[i].name = <<"read", "_errors_corrected_by_eccfast_per_tb">>
    /\ \E i \in 1..Len(outcome.metrics) :
          outcome.metrics[i].name = <<"write", "_bytes_processed">>

RECURSIVE TotalGigabytes(_)
TotalGigabytes(m) ==
    IF m = <<>> THEN 0
    ELSE (IF m[1][2].t = "ctr"
          THEN Float(GetOr(m[1][2].c.gigabytes_processed, Str(<<"0">>))).f ELSE 0)
         + TotalGigabytes(Tail(m))

\* C18: a check that passes the three early returns gives, as its last
\* metric of the counters, one metric total_bytes_processed: the sum of
\* gigabytes_processed over all operations times 1024^3.
C18_TotalBytesProcessed ==
    ReachedEvaluation =>
       \E i \in 1..Len(outcome.metrics) :
          /\ outcome.metrics[i] = Metric(<<"total_bytes_processed">>,
                                         Val(TotalGigabytes(Ec.m), 1, 30))
          /\ \A j \in 1..Len(outcome.metrics) :
                (j # i /\ NamedByPattern(outcome.metrics[j].name))
                => (j < i /\ outcome.metrics[j].name # <<"total_bytes_processed">>)

\* The absolute metrics among the metrics of a check, in their order.
AbsoluteOf(metrics) ==
    LET IsAbsolute(m) ==
           /\ Len(m.name) = 2
           /\ m.name[2] \in {"_errors_corrected_by_eccfast", "_errors_corrected_by_eccdelayed",
                             "_errors_corrected_by_rereads_rewrites",
                             "_correction_algorithm_invocations", "_bytes_processed",
                             "_total_uncorrected_errors"}
    IN SelectSeq(metrics, IsAbsolute)

\* C19: for each operation of error_counters that is a mapping (of
\* well-typed counters), in the order of the parsed data, the check gives
\* exactly six absolute metrics: ECC fast, ECC delayed, rereads/rewrites,
\* algorithm invocations, bytes processed = gigabytes_processed * 1024^3 and
\* uncorrected errors, a missing counter as 0; no metric of an operation
\* comes after one of a later operation.
C19_AbsoluteMetrics ==
    LET rec == IF Checked /\ HasKey(section, CheckedName) THEN Rec ELSE Absent
        Passes == /\ rec.t = "obj" /\ rec.o.error.t = "absent"
                  /\ rec.o.error_counters.t = "map" /\ rec.o.error_counters.m # <<>>
                  /\ \A e \in 1..Len(rec.o.error_counters.m) :
                        rec.o.error_counters.m[e][2].t = "ctr"
                        => WellTypedCounters(rec.o.error_counters.m[e][2])
    IN Passes
       => LET IsMapping(entry) == entry[2].t = "ctr"
              ops == SelectSeq(rec.o.error_counters.m, IsMapping)
              abs == AbsoluteOf(outcome.metrics)
              IsOwn(m) == NamedByPattern(m.name) /\ Len(m.name) = 2
              own == SelectSeq(outcome.metrics, IsOwn)
              Field(c, f) == IF c[f].t = "absent" THEN 0 ELSE c[f].n
              Gb(c) == IF c.gigabytes_processed.t = "absent" THEN 0
                       ELSE Float(c.gigabytes_processed).f
              Position(op) == CHOOSE n \in 1..Len(ops) : ops[n][1] = op
          IN /\ Len(abs) = 6 * Len(ops)
             /\ \A n \in 1..Len(ops) :
                   LET op == ops[n][1]
                       c == ops[n][2].c
                       at == 6 * (n - 1)
                   IN /\ abs[at + 1] = Metric(<<op, "_errors_corrected_by_eccfast">>,
                                              Val(Field(c, "errors_corrected_by_eccfast"), 1, 0))
                      /\ abs[at + 2] = Metric(<<op, "_errors_corrected_by_eccdelayed">>,
                                              Val(Field(c, "errors_corrected_by_eccdelayed"), 1, 0))
                      /\ abs[at + 3] = Metric(<<op, "_errors_corrected_by_rereads_rewrites">>,
                                              Val(Field(c, "errors_corrected_by_rereads_rewrites"), 1, 0))
                      /\ abs[at + 4] = Metric(<<op, "_correction_algorithm_invocations">>,
                                              Val(Field(c, "correction_algorithm_invocations"), 1, 0))
                      /\ abs[at + 5] = Metric(<<op, "_bytes_processed">>, Val(Gb(c), 1, 30))
                      /\ abs[at + 6] = Metric(<<op, "_total_uncorrected_errors">>,
                                              Val(Field(c, "total_uncorrected_errors"), 1, 0))
             /\ \A i \in 1..(Len(own) - 1) :
                   Position(own[i].name[1]) <= Position(own[i + 1].name[1])

\* the metrics of write, then of read, have been given, a counter that is
\* missing as 0 and 1 gigabyte as 2^30 bytes
C19_Witness ==
    /\ Checked /\ HasKey(section, CheckedName) /\ Rec.t = "obj"
    /\ Rec.o.error_counters.t = "map" /\ Len(Rec.o.error_counters.m) = 2
    /\ Rec.o.error_counters.m[1] = <<"write", BusyCounters>>
    /\ Rec.o.error_counters.m[2][1] = "read" /\ Rec.o.error_counters.m[2][2].t = "ctr"
    /\ Len(AbsoluteOf(outcome.metrics)) = 12
    /\ AbsoluteOf(outcome.metrics)[3]
          = Metric(<<"write", "_errors_corrected_by_rereads_rewrites">>, Val(0, 1, 0))
    /\ AbsoluteOf(outcome.metrics)[5] = Metric(<<"write", "_bytes_processed">>, Val(1, 1, 30))
    /\ AbsoluteOf(outcome.metrics)[7].name[1] = "read"

\* The per-terabyte metrics of an operation among the metrics of a check.
RelativeOf(metrics, operation) ==
    LET IsRelative(m) ==
           /\ Len(m.name) = 2 /\ m.name[1] = operation
           /\ m.name[2] \in {"_errors_corrected_by_eccfast_per_tb",
                             "_errors_corrected_by_eccdelayed_per_tb",
                             "_errors_corrected_by_rereads_rewrites_per_tb",
                             "_correction_algorithm_invocations_per_tb",
                             "_total_uncorrected_errors_per_tb", "_bytes_processed_per_tb"}
    IN SelectSeq(metrics, IsRelative)

\* The per-terabyte metrics of the four kinds ECC fast, ECC delayed,
\* rereads/rewrites and algorithm invocations: counter / (gb / 1024).
FourPerTb(operation, c, gb) ==
    LET Field(f) == IF c[f].t = "absent" THEN 0 ELSE c[f].n
    IN { Metric(<<operation, "_errors_corrected_by_eccfast_per_tb">>,
                Val(Field("errors_corrected_by_eccfast"), gb, 10)),
         Metric(<<operation, "_errors_corrected_by_eccdelayed_per_tb">>,
                Val(Field("errors_corrected_by_eccdelayed"), gb, 10)),
         Metric(<<operation, "_errors_corrected_by_rereads_rewrites_per_tb">>,
                Val(Field("errors_corrected_by_rereads_rewrites"), gb, 10)),
         Metric(<<operation, "_correction_algorithm_invocations_per_tb">>,
                Val(Field("correction_algorithm_invocations"), gb, 10)) }

\* smart_errors.py adds the uncorrected errors per terabyte.
UncorrectedPerTb(v, operation, c, gb) ==
    IF v = "smart"
    THEN { Metric(<<operation, "_total_uncorrected_errors_per_tb">>,
                  Val(IF c.total_uncorrected_errors.t = "absent" THEN 0
                      ELSE c.total_uncorrected_errors.n, gb, 10)) }
    ELSE {}

\* C20 as stated: an operation has per-terabyte metrics iff its
\* gigabytes_processed > 0, and then exactly those of the four kinds ECC
\* fast, ECC delayed, rereads/rewrites and algorithm invocations, each
\* counter / (gigabytes_processed / 1024); nothing is divided by zero.
C20_FourPerTerabyte ==
    ReachedEvaluation =>
       LET ec == Ec
       IN /\ outcome.raised # "ZeroDivisionError"
          /\ \A i \in 1..Len(outcome.metrics) : outcome.metrics[i].value.d # 0
          /\ \A e \in 1..Len(ec.m) :
                LET c == ec.m[e][2].c
                    gb == IF c.gigabytes_processed.t = "absent" THEN 0
                          ELSE Float(c.gigabytes_processed).f
                    rel == RelativeOf(outcome.metrics, ec.m[e][1])
                IN IF gb > 0
                   THEN /\ Len(rel) = 4
                        /\ {rel[i] : i \in 1..Len(rel)} = FourPerTb(ec.m[e][1], c, gb)
                   ELSE rel = <<>>

\* C20, amended: an operation has per-terabyte metrics iff its
\* gigabytes_processed > 0, and then exactly those of the four kinds ECC
\* fast, ECC delayed, rereads/rewrites and algorithm invocations and, in the
\* smart plugin, of the uncorrected errors, each counter /
\* (gigabytes_processed / 1024); nothing is divided by zero.
C20_PerTerabyteOfVariant ==
    ReachedEvaluation =>
       LET ec == Ec
       IN /\ outcome.raised # "ZeroDivisionError"
          /\ \A i \in 1..Len(outcome.metrics) : outcome.metrics[i].value.d # 0
          /\ \A e \in 1..Len(ec.m) :
                LET c == ec.m[e][2].c
                    gb == IF c.gigabytes_processed.t = "absent" THEN 0
                          ELSE Float(c.gigabytes_processed).f
                    rel == RelativeOf(outcome.metrics, ec.m[e][1])
                    all == FourPerTb(ec.m[e][1], c, gb)
                              \cup UncorrectedPerTb(variant, ec.m[e][1], c, gb)
                IN IF gb > 0
                   THEN /\ Len(rel) = Cardinality(all)
                        /\ {rel[i] : i \in 1..Len(rel)} = all
                   ELSE rel = <<>>

\* the check of a device whose write has 1 gigabyte and whose read has none
\* has given the rates of write, MaxCount algorithm invocations per 1/1024
\* terabyte among them, and none of read
C20_Witness ==
    /\ ReachedEvaluation
    /\ Len(Ec.m) = 2
    /\ Ec.m[1] = <<"write", BusyCounters>>
    /\ Ec.m[2][1] = "read"
    /\ GetOr(Ec.m[2][2].c.gigabytes_processed, Num(0)) = Num(0)
    /\ RelativeOf(outcome.metrics, "read") = <<>>
    /\ \E i \in 1..Len(outcome.metrics) :
          outcome.metrics[i] = Metric(<<"write", "_correction_algorithm_invocations_per_tb">>,
                                      Val(MaxCount, 1, 10))

(* ------------------------------ claims on rates and result lines ------- *)
\* C21: with the pair uncorrected_errors_per_tb configured and the total of
\* the processed gigabytes > 0, the check ends with a severity that is at
\* least the state of (sum of total_uncorrected_errors) / (total gigabytes /
\* 1024) against the pair; with a total of 0 gigabytes nothing is divided by
\* zero.
C21_RateThreshold ==
    (ReachedEvaluation /\ RateKey \in DOMAIN params /\ params[RateKey].f = "pair")
    => LET ec == Ec
           total_gb == TotalGigabytes(ec.m)
           total_uncorrected == TotalOf(ec, "total_uncorrected_errors", 1)
       IN IF total_gb > 0
          THEN /\ outcome.raised = "none"
               /\ StateValue(Severity(outcome))
                     >= StateValue(RateState(total_uncorrected, total_gb,
                                             params[RateKey].w, params[RateKey].c))
          ELSE outcome.raised # "ZeroDivisionError"

\* C22: a counter whose value is 0 (or that is missing) has no result line
\* of its own, whatever the operation, the counter kind and the rule, a
\* configured pair with warn = 0 or crit = 0 included.
C22_ZeroNotReported ==
    ReachedEvaluation =>
       LET ec == Ec
       IN \A e \in 1..Len(ec.m) : \A k \in 1..5 :
             Counter(ec.m[e][2], Kinds[k].field) = 0 => LinesOf(ec.m[e][1], k) = {}

\* oposs has checked a device whose read has 1 ECC fast error and 0 ECC
\* delayed errors under the levels (0, 0) for the latter: a line for the
\* former, none for the latter
C22_Witness ==
    /\ ReachedEvaluation /\ variant = "oposs" /\ outcome.raised = "none"
    /\ HasOp(Ec, "read")
    /\ OpCounters(Ec, "read").c.errors_corrected_by_eccdelayed = Num(0)
    /\ OpossConfigured(params, CounterKey("read", 3))
    /\ params[CounterKey("read", 3)].w = 0 /\ params[CounterKey("read", 3)].c = 0
    /\ LinesOf("read", 2) # {}
    /\ LinesOf("read", 3) = {}

\* C23: a positive correction_algorithm_invocations counter of read, write
\* or verify without a threshold under <op>_algorithm_invocations_abs has no
\* result line and no part in the severity: the results of the check are
\* those of the same check with that counter at 0.
C23_InvocationsOnlyWithThreshold ==
    ReachedEvaluation =>
       LET ec == Ec
           d == CHOOSE i \in 1..Len(section) : section[i].name = CheckedName
       IN \A e \in 1..Len(ec.m) :
             (/\ ec.m[e][1] \in {"read", "write", "verify"}
              /\ Counter(ec.m[e][2], "correction_algorithm_invocations") > 0
              /\ Unconfigured(ec.m[e][1], 5))
             => LET without ==
                       [section EXCEPT ![d].data.o.error_counters.m[e][2].c
                                            .correction_algorithm_invocations = Num(0)]
                    same == Check(variant, item, params, without)
                IN /\ LinesOf(ec.m[e][1], 5) = {}
                   /\ outcome.results = same.results
                   /\ outcome.raised = same.raised

\* oposs has checked a device with algorithm invocations of write and of
\* read: with levels for those of read only, read has a line and write has
\* none
C23_Witness ==
    /\ ReachedEvaluation /\ variant = "oposs" /\ outcome.raised = "none"
    /\ HasOp(Ec, "read") /\ HasOp(Ec, "write")
    /\ Observed(Ec, "write", 5) > 0 /\ Unconfigured("write", 5)
    /\ Observed(Ec, "read", 5) > 0 /\ OpossConfigured(params, CounterKey("read", 5))
    /\ LinesOf("write", 5) = {}
    /\ Cardinality(LinesOf("read", 5)) = 1
    /\ outcome.results # <<>>

\* C24: a check that reaches the evaluation of the counters gives exactly
\* one result with the device description, tagged OK, and after it the
\* summaries of the processed bytes: one for each of read, write and verify
\* with processed bytes, in this order whatever the order of the record, and
\* no other.
C24_OverviewThenProcessed ==
    ReachedEvaluation =>
       LET ec == Ec
           desc == DescriptionOf(CheckedName, Rec)
           Gb(op) == IF HasOp(ec, op)
                     THEN Float(GetOr(OpCounters(ec, op).c.gigabytes_processed,
                                      Str(<<"0">>))).f
                     ELSE 0
           IsProcessed(r) == /\ Len(r.summary) >= 2
                             /\ r.summary[1] \in {"Read", "Write", "Verify"}
                             /\ r.summary[Len(r.summary)] = " processed"
       IN /\ outcome.raised = "none"
          /\ outcome.results # <<>>
          /\ outcome.results[1] = Result("OK", desc)
          /\ \A i \in 2..Len(outcome.results) : outcome.results[i].summary # desc
          /\ SelectSeq(outcome.results, IsProcessed)
                = (ProcessedSummary("Read", Gb("read"))
                   \o ProcessedSummary("Write", Gb("write")))
                   \o ProcessedSummary("Verify", Gb("verify"))

\* C25: an entry of error_counters whose value is no mapping is skipped:
\* the check of a record with such entries beside entries of well-typed
\* counters ends as the check of the record without them does, metrics,
\* results and exception alike.
C25_NonMappingSkipped ==
    LET rec == IF Checked /\ HasKey(section, CheckedName) THEN Rec ELSE Absent
        IsMapping(entry) == entry[2].t = "ctr"
        Mixed == /\ rec.t = "obj" /\ rec.o.error.t = "absent"
                 /\ rec.o.error_counters.t = "map"
                 /\ \E e \in 1..Len(rec.o.error_counters.m) :
                       ~IsMapping(rec.o.error_counters.m[e])
                 /\ \E e \in 1..Len(rec.o.error_counters.m) :
                       IsMapping(rec.o.error_counters.m[e])
                 /\ \A e \in 1..Len(rec.o.error_counters.m) :
                       IsMapping(rec.o.error_counters.m[e])
                       => WellTypedCounters(rec.o.error_counters.m[e][2])
    IN Mixed
       => LET d == CHOOSE i \in 1..Len(section) : section[i].name = CheckedName
              without == [section EXCEPT ![d].data.o.error_counters.m =
                                            SelectSeq(@, IsMapping)]
          IN outcome = Check(variant, item, params, without)

(* ------------------------------ claims on the description -------------- *)
\* C26: the description of a device is built from the parts model (if not
\* empty), "(<rendered capacity>)" (if capacity_bytes > 0) and "S/N: <last 8
\* characters of the serial, the whole serial if it has 8 or fewer>" (if the
\* serial is not empty): with a part, the parts joined by single spaces and
\* then " (<text after the last "/" of device_path>)"; without, device_path.
\* The check of a DataRecord gives this text: alone or before ": ".
C26_Description ==
    (Checked /\ HasKey(section, CheckedName) /\ IsDataRecord(Rec))
    => LET rec == Rec
           device_path == IF rec.o.device.t = "absent" THEN CheckedName ELSE rec.o.device.s
           model == IF rec.o.model.t = "absent" THEN <<>> ELSE rec.o.model.s
           serial == IF rec.o.serial.t = "absent" THEN <<>> ELSE rec.o.serial.s
           capacity == IF rec.o.capacity_bytes.t = "absent" THEN 0
                       ELSE rec.o.capacity_bytes.n
           part2 == IF capacity > 0
                    THEN (<<"(">> \o RenderBytes(Val(capacity, 1, 0))) \o <<")">>
                    ELSE <<>>
           part3 == IF serial = <<>> THEN <<>>
                    ELSE <<"S/N: ">>
                         \o (IF Len(serial) <= 8 THEN serial
                             ELSE [i \in 1..8 |-> serial[Len(serial) - 8 + i]])
           Spaced(a, b) == IF a = <<>> \/ b = <<>> THEN a \o b ELSE (a \o <<" ">>) \o b
           joined == Spaced(Spaced(model, part2), part3)
           slashes == {i \in 1..Len(device_path) : device_path[i] = "/"}
           basename == IF slashes = {} THEN device_path
                       ELSE LET last == CHOOSE i \in slashes : \A j \in slashes : j <= i
                            IN [i \in 1..(Len(device_path) - last) |-> device_path[last + i]]
           expected == IF joined = <<>> THEN device_path
                       ELSE ((joined \o <<" ", "(">>) \o basename) \o <<")">>
           summary == outcome.results[1].summary
       IN /\ outcome.raised = "none"
          /\ outcome.results # <<>>
          /\ \/ summary = expected
             \/ /\ Len(summary) > Len(expected)
                /\ SubSeq(summary, 1, Len(expected)) = expected
                /\ summary[Len(expected) + 1] \in {": ", ": No error counter data available"}

\* oposs has checked /dev/sda with model, capacity and a serial of 10
\* characters: the three parts, the last 8 characters of the serial, and sda
C26_Witness ==
    /\ Checked /\ variant = "oposs" /\ HasKey(section, CheckedName)
    /\ Rec = Blob(Absent, Str(DevSda), Str(ModelX), Str(SerialLong), Num(2048),
                  Map(<<<<"read", CleanCounters>>>>))
    /\ outcome.results[1].summary
          = (((ModelX \o <<" ", "(">>) \o RenderBytes(Val(2048, 1, 0)))
             \o <<")", " ", "S/N: ", "3", "4", "5", "6", "7", "8", "9", "0", " ", "(">>)
            \o (Sda \o <<")">>)

C28_SuffixIgnored ==
    Checked =>
       \A i \in 1..Len(section) :
          LET name == section[i].name
          IN (/\ ~Contains(name, OpenParen)
              /\ IsPrefixAt(item, name \o OpenParen, 1)
              /\ EndsWith(item, CloseParen))
             => /\ \A suffix \in {SerialY, NoSerial, SerialSuffix(SerialLong)} :
                      outcome = Check(variant, ((name \o OpenParen) \o suffix) \o CloseParen,
                                      params, section)
                /\ IsDataRecord(section[i].data)
                      => outcome = Check(variant, Identity(name, section[i].data),
                                         params, section)
                /\ ~(/\ Len(outcome.results) = 1
                     /\ outcome.results[1].state = "UNKNOWN"
                     /\ outcome.results[1].summary[1] = "Device ")

\* the service "sda (y)" has been checked in a cycle in which the serial of
\* sda is 1234567890: the check gives the description of that device
C28_Witness ==
    /\ Checked /\ outcome.raised = "none"
    /\ item = ((Sda \o OpenParen) \o SerialY) \o CloseParen
    /\ HasKey(section, Sda)
    /\ IsDataRecord(Lookup(section, Sda))
    /\ Lookup(section, Sda).o.serial = Str(SerialLong)
    /\ IsPrefixAt(outcome.results[1].summary, DescriptionOf(Sda, Lookup(section, Sda)), 1)

(* ------------------------------ claims on blobs with "error" ----------- *)
\* C29: a parsed blob that is an object with the key "error" is an
\* ErrorRecord whatever else it holds: discovery yields no service for its
\* device (every service is the one of a device whose record has no such
\* key), and its check gives the one result CRIT "Error: <value of error>"
\* and no metric, also with well-typed error_counters in the same blob.
C29_ErrorKeyWins ==
    /\ Discovered =>
          LET others == {i \in 1..Len(section) :
                            /\ section[i].data.t = "obj"
                            /\ section[i].data.o.error.t = "absent"
                            /\ section[i].data.o.serial.t \in {"absent", "str"}}
          IN /\ Len(services.items) <= Cardinality(others)
             /\ \A j \in 1..Len(services.items) :
                   \E i \in others :
                      services.items[j] = Identity(section[i].name, section[i].data)
    /\ (Checked /\ HasKey(section, CheckedName)
          /\ Rec.t = "obj" /\ Rec.o.error.t # "absent")
       => outcome = Outcome("none",
                            <<Result("CRIT", <<"Error: ">> \o Format(Rec.o.error))>>,
                            <<>>)

\* a blob with "error" and counters has been discovered and checked: no
\* service, and the check of the service of an earlier cycle is CRIT
C29_Witness ==
    /\ Discovered /\ services.raised = "none" /\ services.items = <<>>
    /\ Checked /\ HasKey(section, CheckedName)
    /\ Rec.t = "obj" /\ Rec.o.error = Str(<<"smartctl failed">>)
    /\ Rec.o.error_counters = Map(<<<<"read", CleanCounters>>>>)
    /\ outcome.results = <<Result("CRIT", <<"Error: ", "smartctl failed">>)>>
    /\ outcome.metrics = <<>>

(* ------------------------------ claims on other operations ------------- *)
\* C30: only read, write and verify are evaluated against thresholds: an
\* entry of error_counters under another name has its six absolute metrics
\* and, iff its gigabytes_processed > 0, its per-terabyte metrics, but no
\* result line, and its counters raise no severity: the check ends with the
\* severity (oposs: with the results) of the same check with these counters
\* at 0, also with positive total_uncorrected_errors and no threshold.
C30_OnlyReadWriteVerify ==
    (ReachedEvaluation /\ RateKey \notin DOMAIN params)
    => LET ec == Ec
           d == CHOOSE i \in 1..Len(section) : section[i].name = CheckedName
       IN \A e \in 1..Len(ec.m) :
             ec.m[e][1] \notin {"read", "write", "verify"}
             => LET op == ec.m[e][1]
                    gb == Float(GetOr(ec.m[e][2].c.gigabytes_processed, Str(<<"0">>))).f
                    zeroed ==
                       [section EXCEPT ![d].data.o.error_counters.m[e][2].c =
                           [f \in DOMAIN @ |->
                               IF f = "gigabytes_processed" THEN @[f] ELSE Num(0)]]
                    same == Check(variant, item, params, zeroed)
                    IsOfOp(m) == m.name[1] = op
                IN /\ Len(SelectSeq(AbsoluteOf(outcome.metrics), IsOfOp)) = 6
                   /\ (RelativeOf(outcome.metrics, op) # <<>>) <=> (gb > 0)
                   /\ \A k \in 1..5 : LinesOf(op, k) = {}
                   /\ \A i \in 1..Len(outcome.results) :
                         outcome.results[i].summary[1] # op
                   /\ outcome.raised = same.raised
                   /\ Severity(outcome) = Severity(same)
                   /\ variant = "oposs" => outcome.results = same.results

\* a device whose only operation is scan, with MaxCount uncorrected errors,
\* 2 gigabytes and no rule, has been checked: the metrics of scan, the rates
\* among them, and the severity OK
C30_Witness ==
    /\ ReachedEvaluation /\ params = DefaultParams
    /\ Ec.m = <<<<"scan", Profile(1, MaxCount, Str(<<"2">>))>>>>
    /\ outcome.raised = "none"
    /\ Severity(outcome) = "OK"
    /\ \E i \in 1..Len(outcome.metrics) :
          outcome.metrics[i] = Metric(<<"scan", "_total_uncorrected_errors">>,
                                      Val(MaxCount, 1, 0))
    /\ RelativeOf(outcome.metrics, "scan") # <<>>

====
